---- MODULE Spec2Model ----
(***************************************************************************)
(* The demand-forecasting dashboard, scripts/demand_forecasting_dashboard  *)
(* .py.  The script `main` is executed from top to bottom once per user    *)
(* interaction (a "rerun"); the only state that survives a rerun is        *)
(* st.session_state and the values of the widgets.  One action of the      *)
(* model is one interaction followed by the whole rerun it triggers.       *)
(*                                                                         *)
(* Dates are day numbers, quantities are integers, a missing cell is NaT / *)
(* NaN.  The fitted Prophet model is an external capability: it keeps the  *)
(* history it was fitted on and predicts a level fixed when it is fitted.  *)
(***************************************************************************)
EXTENDS Integers, Sequences, FiniteSets, TLC

\* ------------------------------------------------------------------ bounds

\* Rows of the longest item series of the built-in sample table.
LongLen == 10

\* The horizons the user moves the slider to: HorizonMin .. HorizonMin + HorizonSpan,
\* besides the slider's default.
HorizonSpan == 1

\* The hold-out lengths the user moves the slider to: TestTailMin .. TestTailMin +
\* TailSpan, one more than the shortest horizon, and the slider's default.
TailSpan == 3

\* Rows of the longest table the cleaning is applied to on its own.
MaxTableRows == 4

\* -------------------------------------------------------- program constants

HorizonMin == 7
HorizonMax == 180
HorizonDefault == 60
TestTailMin == 0
TestTailCap == 60
TestTailDivisor == 3
TestTailDefault == 14

\* A missing date (pd.to_datetime of an empty cell) and a missing quantity.
NaT == 0 - 1
NaN == 0 - 1

\* ------------------------------------------------------------- input tables

Row(s, d, q) == [SKU |-> s, Date |-> d, Sales_Qty |-> q]

\* The SKU identifiers of the tables, in the order sorted() gives them.
AllSkus == <<"A", "B", "C", "D">>

\* data/synthetic_sales_dataset.csv: item A has LongLen daily rows with
\* quantities cycling through 2,1,0 and ending in 0; item B has six daily rows of quantity 5, stored
\* newest first; item C has only rows with a missing date or quantity.
SampleTable ==
    <<Row("C", 1, NaN), Row("B", 6, 5), Row("B", 5, 5)>>
    \o [i \in 1..LongLen |-> Row("A", i, (LongLen - i) % 3)]
    \o <<Row("B", 4, 5), Row("B", 3, 5), Row("C", NaT, 4), Row("B", 2, 5), Row("B", 1, 5)>>

\* An uploaded CSV: item A has a repeated date and gaps between dates, item B
\* has two usable rows and one without quantity, item D has a single row.
UploadTable ==
    <<Row("A", 2, 0), Row("D", 3, 2), Row("A", 1, 2), Row("B", 1, 1), Row("A", 1, 1),
      Row("B", 2, NaN), Row("A", 20, 1), Row("A", 5, 2), Row("B", 3, 2)>>

\* The RangeIndex pd.read_csv gives a table: row i is labelled i, from 0.
RangeIndex(table) ==
    [i \in 1..Len(table) |->
        [SKU |-> table[i].SKU, Date |-> table[i].Date,
         Sales_Qty |-> table[i].Sales_Qty, idx |-> i - 1]]

\* pd.read_csv of the built-in sample or of the uploaded file.
ReadCsv(src) == RangeIndex(IF src = "sample" THEN SampleTable ELSE UploadTable)

\* ------------------------------------------------------- Stage 2: clean

SkuRank(s) == CHOOSE i \in 1..Len(AllSkus) : AllSkus[i] = s

\* The order of sort_values(["SKU","Date"]): by SKU, then by Date with NaT last.
RowLeq(a, b) ==
    \/ SkuRank(a.SKU) < SkuRank(b.SKU)
    \/ /\ a.SKU = b.SKU
       /\ \/ b.Date = NaT
          \/ a.Date # NaT /\ a.Date <= b.Date

RECURSIVE InsertRow(_, _)
InsertRow(r, sorted) ==
    IF sorted = <<>> THEN <<r>>
    ELSE IF RowLeq(sorted[Len(sorted)], r) THEN Append(sorted, r)
    ELSE Append(InsertRow(r, SubSeq(sorted, 1, Len(sorted) - 1)), sorted[Len(sorted)])

\* df.sort_values(["SKU","Date"]): a stable sort.
RECURSIVE SortValues(_)
SortValues(df) ==
    IF df = <<>> THEN <<>>
    ELSE InsertRow(df[Len(df)], SortValues(SubSeq(df, 1, Len(df) - 1)))

\* Lines 44-46 on each of the two tables.
SampleDf == SortValues(ReadCsv("sample"))
UploadDf == SortValues(ReadCsv("upload"))

\* sorted(df["SKU"].unique())
Skus(df) == SelectSeq(AllSkus, LAMBDA s : \E i \in 1..Len(df) : df[i].SKU = s)

IsThisSku(r, s) == r.SKU = s
HasNoNa(r) == r.ds # NaT /\ r.y # NaN

\* reset_index(drop=True): the rows relabelled 0, 1, 2, ...
ResetIndex(rows) == [i \in 1..Len(rows) |-> [rows[i] EXCEPT !.idx = i - 1]]

\* Clean without the reset_index: the rows keep the labels of the table.
Clean_KeepsIndex(df, s) ==
    LET mine == SelectSeq(df, LAMBDA r : IsThisSku(r, s))
        proj == [i \in 1..Len(mine) |->
                    [ds |-> mine[i].Date, y |-> mine[i].Sales_Qty, idx |-> mine[i].idx]]
    IN  SelectSeq(proj, HasNoNa)

\* df[df["SKU"]==sku][["Date","Sales_Qty"]].rename(...).dropna().reset_index(drop=True)
Clean(df, s) ==
    LET mine == SelectSeq(df, LAMBDA r : IsThisSku(r, s))
        proj == [i \in 1..Len(mine) |->
                    [ds |-> mine[i].Date, y |-> mine[i].Sales_Qty, idx |-> mine[i].idx]]
    IN  ResetIndex(SelectSeq(proj, HasNoNa))

\* ------------------------------------------------------- Stage 3: split

Min(a, b) == IF a <= b THEN a ELSE b
Max(a, b) == IF a >= b THEN a ELSE b

\* The max_value argument of the hold-out slider.
TestTailArgMax(n) == Min(TestTailCap, n \div TestTailDivisor)

\* st.slider widens its bounds to hold the default value, so the slider offers
\* TestTailMin .. max(max_value, default).
TestTailMax(n) == Max(TestTailArgMax(n), TestTailDefault)

\* Split with the eval slice starting one row early (iloc[-test_tail-1:]).
Split_OffByOne(sku_df, tail) ==
    IF tail > 0 /\ tail < Len(sku_df)
    THEN [train |-> SubSeq(sku_df, 1, Len(sku_df) - tail),
          test  |-> SubSeq(sku_df, Len(sku_df) - tail, Len(sku_df))]
    ELSE [train |-> sku_df, test |-> <<>>]

\* sku_df.iloc[:-test_tail], sku_df.iloc[-test_tail:] under the guard of line 59.
Split(sku_df, tail) ==
    IF tail > 0 /\ tail < Len(sku_df)
    THEN [train |-> SubSeq(sku_df, 1, Len(sku_df) - tail),
          test  |-> SubSeq(sku_df, Len(sku_df) - tail + 1, Len(sku_df))]
    ELSE [train |-> sku_df, test |-> <<>>]

\* ------------------------------------------- the external forecasting model

\* The point predictions a fitted model may give (one level per fit).
Levels == {0, 5}

\* Prophet.fit raises ValueError on a dataframe with less than 2 rows.  On any
\* other dataframe the fit may succeed or raise (`ok` of Stage4).
FitRaises(train) == Len(train) < 2

\* The fitted model: the history it was fitted on and what it predicts.
Fit(train, lvl) == [history |-> train, level |-> lvl]

RECURSIVE SortedSeq(_)
SortedSeq(S) ==
    IF S = {} THEN <<>>
    ELSE LET lo == CHOOSE x \in S : \A z \in S : x <= z
         IN  <<lo>> \o SortedSeq(S \ {lo})

\* m.history_dates: the distinct dates of the history, ascending.
HistoryDates(m) == SortedSeq({m.history[i].ds : i \in 1..Len(m.history)})

\* MakeFutureDataframe with the future dates starting at the last history date.
MakeFutureDataframe_Inclusive(m, periods) ==
    LET hist == HistoryDates(m)
        last == hist[Len(hist)]
    IN  hist \o [i \in 1..(periods + 1) |-> last + i - 1]

\* m.make_future_dataframe(periods, freq="D"): the history dates, then
\* `periods` consecutive days after the last of them.
MakeFutureDataframe(m, periods) ==
    LET hist == HistoryDates(m)
        last == hist[Len(hist)]
    IN  hist \o [i \in 1..periods |-> last + i]

\* m.predict(future): one row per date of `future`.
Predict(m, future) ==
    [i \in 1..Len(future) |->
        [ds |-> future[i], yhat |-> m.level,
         yhat_lower |-> m.level - 1, yhat_upper |-> m.level + 1]]

\* --------------------------------------------------- Stage 5: evaluation

Abs(x) == IF x < 0 THEN 0 - x ELSE x

RECURSIVE Gcd(_, _)
Gcd(a, b) == IF b = 0 THEN a ELSE Gcd(b, a % b)

\* The fraction n/d in lowest terms with a positive denominator.
Frac(n, d) ==
    LET g == Gcd(Abs(n), Abs(d))
        sgn == IF d < 0 THEN 0 - 1 ELSE 1
    IN  [num |-> sgn * (n \div g), den |-> sgn * (d \div g)]

FracAdd(a, b) == Frac(a.num * b.den + b.num * a.den, a.den * b.den)

\* pd.merge(test, forecast[["ds","yhat"]], on="ds", how="left"): every test row
\* once per forecast row of its date, or once with a missing yhat (<<>>).
RECURSIVE MergeLeft(_, _)
MergeLeft(test, forecast) ==
    IF test = <<>> THEN <<>>
    ELSE LET t == Head(test)
             hits == SelectSeq(forecast, LAMBDA f : f.ds = t.ds)
         IN  (IF hits = <<>>
              THEN <<[ds |-> t.ds, y |-> t.y, yhat |-> <<>>]>>
              ELSE [i \in 1..Len(hits) |-> [ds |-> t.ds, y |-> t.y, yhat |-> <<hits[i].yhat>>]])
             \o MergeLeft(Tail(test), forecast)

\* Replace01 as add-one smoothing of the denominator.
Replace01_AddOne(y) == y + 1

\* joined["y"].replace(0, 1)
Replace01(y) == IF y = 0 THEN 1 ELSE y

\* joined["abs_err"] / joined["y"].replace(0, 1): missing where yhat is missing.
PctErr(j) ==
    IF j.yhat = <<>> THEN <<>>
    ELSE <<Frac(Abs(j.y - j.yhat[1]), Replace01(j.y))>>

RECURSIVE FracSum(_)
FracSum(col) ==
    IF col = <<>> THEN Frac(0, 1)
    ELSE IF Head(col) = <<>> THEN FracSum(Tail(col))
    ELSE FracAdd(Head(col)[1], FracSum(Tail(col)))

\* Series.mean(): the mean of the values that are not missing, missing (<<>>) when
\* there is none.
Mean(col) ==
    LET present == SelectSeq(col, LAMBDA v : v # <<>>)
        total == FracSum(col)
    IN  IF present = <<>> THEN <<>>
        ELSE <<Frac(total.num, total.den * Len(present))>>

\* Lines 92-94: the score, a fraction, or <<>> for nan.
Mape(test, forecast) ==
    LET joined == MergeLeft(test, forecast)
        mean == Mean([i \in 1..Len(joined) |-> PctErr(joined[i])])
    IN  IF mean = <<>> THEN <<>> ELSE <<Frac(mean[1].num * 100, mean[1].den)>>

\* f"{mape:.2f}": hundredths, the nearest, a tie going to the even one.
Format2f(v) ==
    LET twice == (2 * 100 * v.num) \div v.den
        exact == (2 * 100 * v.num) % v.den = 0
        low == twice \div 2
    IN  IF twice % 2 = 0 THEN low
        ELSE IF exact /\ low % 2 = 0 THEN low
        ELSE low + 1

\* ------------------------------------------------------------------ state

VARIABLES
    sample_exists,  \* whether data/synthetic_sales_dataset.csv exists (line 34)
    uploaded,       \* the file uploader's value: "none" or "upload" (line 28)
    sku,            \* the value of the "Choose SKU" selectbox (line 48)
    horizon_days,   \* the value of the horizon slider (line 55)
    test_tail,      \* the value of the hold-out slider (line 57)
    session_state,  \* st.session_state: <<>> for an absent key, <<v>> for a value
    trained,        \* whether some m.fit has returned (history variable)
    out,            \* what the last rerun executed and displayed (tables by
                    \* their row counts: the forecast plotted and exported is
                    \* the one the rerun left in session_state["forecast"])
    stage2          \* Stage 2 on a table of its own: the table read, the SKU
                    \* chosen and the series cleaned (CleanSpec only)

vars == <<sample_exists, uploaded, sku, horizon_days, test_tail, session_state,
          trained, out, stage2>>

Has(ss, key) == ss[key] # <<>>

EmptySession == [m |-> <<>>, train |-> <<>>, test |-> <<>>, forecast |-> <<>>]

\* A rerun that has displayed nothing yet.
OutNone ==
    [error |-> "none", skus |-> <<>>, sku_df |-> <<>>, split |-> <<>>,
     train_clicked |-> FALSE, fit_input |-> <<>>,
     stage5 |-> "not run", plot |-> <<>>, mape |-> <<>>,
     stage6 |-> "not run", export |-> <<>>]

HorizonChoices == (HorizonMin .. Min(HorizonMin + HorizonSpan, HorizonMax)) \cup {HorizonDefault}

\* The positions of the hold-out slider the user picks, for a series of n rows.
TestTailChoices(n) ==
    {t \in TestTailMin .. TestTailMax(n) :
        t <= TestTailMin + TailSpan \/ t = HorizonMin + 1 \/ t = TestTailDefault}

\* ------------------------------------------------------- Stage 4: train

\* Stage4 with line 73 before line 72: the cache is written before the fit.
Stage4_StoreBeforeFit(ss, split, click, ok, lvl) ==
    LET stored == [ss EXCEPT !.m = <<Fit(split.train, lvl)>>,
                             !.train = <<split.train>>,
                             !.test = <<split.test>>]
    IN  IF ~click THEN [raised |-> FALSE, ss |-> ss, fit_input |-> <<>>, fitted |-> FALSE]
        ELSE IF FitRaises(split.train) \/ ~ok
        THEN [raised |-> TRUE, ss |-> stored, fit_input |-> <<split.train>>, fitted |-> FALSE]
        ELSE [raised |-> FALSE, ss |-> stored, fit_input |-> <<split.train>>, fitted |-> TRUE]

\* Stage4 with the train set cached under "test" as well.
Stage4_CachesTrainAsTest(ss, split, click, ok, lvl) ==
    IF ~click THEN [raised |-> FALSE, ss |-> ss, fit_input |-> <<>>, fitted |-> FALSE]
    ELSE IF FitRaises(split.train) \/ ~ok
    THEN [raised |-> TRUE, ss |-> ss, fit_input |-> <<split.train>>, fitted |-> FALSE]
    ELSE [raised |-> FALSE,
          ss |-> [ss EXCEPT !.m = <<Fit(split.train, lvl)>>,
                            !.train = <<split.train>>,
                            !.test = <<split.train>>],
          fit_input |-> <<split.train>>, fitted |-> TRUE]

\* Lines 70-74.  `ok` is whether the external fit succeeds on a dataframe it
\* accepts, `lvl` what the fitted model predicts.  An exception of m.fit ends the
\* rerun before line 73.
Stage4(ss, split, click, ok, lvl) ==
    IF ~click THEN [raised |-> FALSE, ss |-> ss, fit_input |-> <<>>, fitted |-> FALSE]
    ELSE IF FitRaises(split.train) \/ ~ok
    THEN [raised |-> TRUE, ss |-> ss, fit_input |-> <<split.train>>, fitted |-> FALSE]
    ELSE [raised |-> FALSE,
          ss |-> [ss EXCEPT !.m = <<Fit(split.train, lvl)>>,
                            !.train = <<split.train>>,
                            !.test = <<split.test>>],
          fit_input |-> <<split.train>>, fitted |-> TRUE]

\* ------------------------------------------- Stage 5: forecast & visualize

\* Evaluate without the guard of line 91.
Evaluate_Always(test, forecast) ==
    LET mape == Mape(test, forecast)
    IN  <<[mape |-> mape,
           text |-> IF mape = <<>> THEN <<>> ELSE <<Format2f(mape[1])>>,
           days |-> Len(test)]>>

\* Lines 91-95: the info line, shown when the cached test set has rows.
Evaluate(test, forecast) ==
    IF Len(test) > 0
    THEN LET mape == Mape(test, forecast)
         IN  <<[mape |-> mape,
                text |-> IF mape = <<>> THEN <<>> ELSE <<Format2f(mape[1])>>,
                days |-> Len(test)]>>
    ELSE <<>>

\* Stage5 that reuses a cached forecast instead of predicting again.
Stage5_KeepCached(ss, s, hz) ==
    IF Has(ss, "m")
    THEN LET m == ss.m[1]
             train == ss.train[1]
             test == ss.test[1]
             forecast == IF Has(ss, "forecast") THEN ss.forecast[1]
                         ELSE Predict(m, MakeFutureDataframe(m, hz))
         IN  [ss |-> [ss EXCEPT !.forecast = <<forecast>>],
              stage5 |-> "forecast",
              plot |-> <<[title |-> <<"Forecast for ", s>>, points |-> Len(forecast),
                          train_actuals |-> Len(train), test_actuals |-> Len(test)]>>,
              mape |-> Evaluate(test, forecast)]
    ELSE [ss |-> ss, stage5 |-> "Train first.", plot |-> <<>>, mape |-> <<>>]

\* Lines 77-97.
Stage5(ss, s, hz) ==
    IF Has(ss, "m")
    THEN LET m == ss.m[1]
             train == ss.train[1]
             test == ss.test[1]
             forecast == Predict(m, MakeFutureDataframe(m, hz))
         IN  [ss |-> [ss EXCEPT !.forecast = <<forecast>>],
              stage5 |-> "forecast",
              plot |-> <<[title |-> <<"Forecast for ", s>>, points |-> Len(forecast),
                          train_actuals |-> Len(train), test_actuals |-> Len(test)]>>,
              mape |-> Evaluate(test, forecast)]
    ELSE [ss |-> ss, stage5 |-> "Train first.", plot |-> <<>>, mape |-> <<>>]

\* ------------------------------------------------------- Stage 6: export

\* ExportTable of a tail window: without the first forecast row.
ExportTable_Tail(fc) ==
    [i \in 1..(Len(fc) - 1) |->
        [Date |-> fc[i + 1].ds, Forecast |-> fc[i + 1].yhat,
         Lower |-> fc[i + 1].yhat_lower, Upper |-> fc[i + 1].yhat_upper]]

\* The projection and rename of line 101.
ExportTable(fc) ==
    [i \in 1..Len(fc) |->
        [Date |-> fc[i].ds, Forecast |-> fc[i].yhat,
         Lower |-> fc[i].yhat_lower, Upper |-> fc[i].yhat_upper]]

\* Lines 100-109.
Stage6(ss, s) ==
    IF Has(ss, "forecast")
    THEN LET table == ExportTable(ss.forecast[1])
         IN  [stage6 |-> "download",
              export |-> <<[csv_name |-> <<s, "_forecast.csv">>,
                            xlsx_name |-> <<s, "_forecast.xlsx">>,
                            columns |-> DOMAIN table[1],
                            rows |-> Len(table)]>>]
    ELSE [stage6 |-> "Export available after forecasting.", export |-> <<>>]

\* ------------------------------------------------------------ one rerun

\* The selectbox keeps its value while its options are those of the last rerun
\* and starts at index 0 otherwise.
SkuValue(prev, skus, want) ==
    IF prev.skus = skus /\ \E i \in 1..Len(skus) : skus[i] = want THEN want ELSE skus[1]

\* The hold-out slider keeps its value while its arguments are those of the last
\* rerun and starts at its default otherwise.
TestTailValue(prev, n, want) ==
    IF prev.skus # <<>> /\ TestTailArgMax(Len(prev.sku_df)) = TestTailArgMax(n)
       /\ want \in TestTailMin .. TestTailMax(n)
    THEN want
    ELSE TestTailDefault

\* main(): the rerun with the file uploader at `up`, the user's wishes for the
\* widgets, the Train button pressed or not, from the session state `ss`, after
\* a rerun that displayed `prev`.
Main(exists, up, wantSku, wantHz, wantTail, click, ok, lvl, ss, prev) ==
    IF up = "none" /\ ~exists
    THEN [sku |-> "", horizon_days |-> HorizonDefault, test_tail |-> TestTailDefault,
          ss |-> ss, fitted |-> FALSE,
          out |-> [OutNone EXCEPT !.error = "No data file found."]]
    ELSE
    LET df == IF up = "none" THEN SampleDf ELSE UploadDf
        skus == Skus(df)
        s == SkuValue(prev, skus, wantSku)
        sku_df == Clean(df, s)
        hz == IF prev.skus # <<>> THEN wantHz ELSE HorizonDefault
        tail == TestTailValue(prev, Len(sku_df), wantTail)
        split == Split(sku_df, tail)
        s4 == Stage4(ss, split, click, ok, lvl)
        s5 == Stage5(s4.ss, s, hz)
        s6 == Stage6(s5.ss, s)
        shown == [OutNone EXCEPT !.skus = skus, !.sku_df = sku_df, !.split = <<split>>,
                                 !.train_clicked = click, !.fit_input = s4.fit_input]
    IN  IF s4.raised
        THEN [sku |-> s, horizon_days |-> hz, test_tail |-> tail, ss |-> s4.ss,
              fitted |-> FALSE, out |-> [shown EXCEPT !.error = "fit raised"]]
        ELSE [sku |-> s, horizon_days |-> hz, test_tail |-> tail, ss |-> s5.ss,
              fitted |-> s4.fitted,
              out |-> [shown EXCEPT !.stage5 = s5.stage5, !.plot = s5.plot,
                                    !.mape = s5.mape, !.stage6 = s6.stage6,
                                    !.export = s6.export]]

\* The state after the rerun `r`.
Becomes(r) ==
    /\ sku' = r.sku
    /\ horizon_days' = r.horizon_days
    /\ test_tail' = r.test_tail
    /\ session_state' = r.ss
    /\ trained' = (trained \/ r.fitted)
    /\ out' = r.out
    /\ UNCHANGED <<sample_exists, stage2>>

\* No table read on its own.
Stage2None == [table |-> <<>>, sku |-> "", sku_df |-> <<>>]

\* The first run of the script in a new session: nothing uploaded, every widget
\* at its default, an empty session state.
Init ==
    /\ stage2 = Stage2None
    /\ sample_exists \in BOOLEAN
    /\ uploaded = "none"
    /\ trained = FALSE
    /\ LET r == Main(sample_exists, "none", "", HorizonDefault, TestTailDefault,
                     FALSE, FALSE, 0, EmptySession, OutNone)
       IN  /\ sku = r.sku
           /\ horizon_days = r.horizon_days
           /\ test_tail = r.test_tail
           /\ session_state = r.ss
           /\ out = r.out

\* The user uploads a CSV, or removes the uploaded one.
Upload ==
    \E up \in {"none", "upload"} \ {uploaded} :
        /\ uploaded' = up
        /\ Becomes(Main(sample_exists, up, sku, horizon_days, test_tail,
                        FALSE, FALSE, 0, session_state, out))

\* The user picks another SKU.
ChooseSku ==
    \E s \in {out.skus[i] : i \in 1..Len(out.skus)} \ {sku} :
        /\ UNCHANGED uploaded
        /\ Becomes(Main(sample_exists, uploaded, s, horizon_days, test_tail,
                        FALSE, FALSE, 0, session_state, out))

\* The user moves the horizon slider.
SetHorizon ==
    /\ out.skus # <<>>
    /\ \E hz \in HorizonChoices \ {horizon_days} :
        /\ UNCHANGED uploaded
        /\ Becomes(Main(sample_exists, uploaded, sku, hz, test_tail,
                        FALSE, FALSE, 0, session_state, out))

\* The user moves the hold-out slider.
SetTestTail ==
    /\ out.skus # <<>>
    /\ \E tail \in TestTailChoices(Len(out.sku_df)) \ {test_tail} :
        /\ UNCHANGED uploaded
        /\ Becomes(Main(sample_exists, uploaded, sku, horizon_days, tail,
                        FALSE, FALSE, 0, session_state, out))

\* The user presses Train.
ClickTrain ==
    /\ out.skus # <<>>
    /\ \E ok \in BOOLEAN, lvl \in Levels :
        /\ UNCHANGED uploaded
        /\ Becomes(Main(sample_exists, uploaded, sku, horizon_days, test_tail,
                        TRUE, ok, lvl, session_state, out))

\* The user presses one of the Show buttons, which changes no input.
ClickShow ==
    /\ UNCHANGED uploaded
    /\ Becomes(Main(sample_exists, uploaded, sku, horizon_days, test_tail,
                    FALSE, FALSE, 0, session_state, out))

Next ==
    \/ SetHorizon
    \/ SetTestTail
    \/ ClickTrain
    \/ ClickShow
    \/ ChooseSku
    \/ Upload

Spec == Init /\ [][Next]_vars

\* ------------------------------------- Stage 2 on every table (lines 44-49)

\* The rows a table is made of: item A with every combination of a date or
\* none and a quantity or none, and rows of another item.
TableRows ==
    {Row("A", d, q) : d \in {NaT, 1, 2}, q \in {NaN, 1}}
        \cup {Row("B", 1, 1), Row("B", NaT, 1)}

\* Lines 44-49 on `table` with `s` chosen in the selectbox.
Stage2(table, s) ==
    [table |-> table, sku |-> s, sku_df |-> Clean(SortValues(RangeIndex(table)), s)]

Stage2Init ==
    /\ stage2 = Stage2None
    /\ sample_exists = TRUE
    /\ uploaded = "none"
    /\ sku = ""
    /\ horizon_days = HorizonDefault
    /\ test_tail = TestTailDefault
    /\ session_state = EmptySession
    /\ trained = FALSE
    /\ out = OutNone

\* A table one row longer is read and one of its SKUs is chosen.
Stage2Read ==
    /\ Len(stage2.table) < MaxTableRows
    /\ \E r \in TableRows :
          LET table == Append(stage2.table, r)
              skus == Skus(RangeIndex(table))
          IN  \E i \in 1..Len(skus) : stage2' = Stage2(table, skus[i])
    /\ UNCHANGED <<sample_exists, uploaded, sku, horizon_days, test_tail,
                   session_state, trained, out>>

CleanSpec == Stage2Init /\ [][Stage2Read]_vars

\* ------------------------------------------------------------ properties

IsPrefix(a, b) == Len(a) <= Len(b) /\ a = SubSeq(b, 1, Len(a))

Dates(series) == {series[i].ds : i \in 1..Len(series)}

\* C1: changing the selected item after a train and a forecast removes the
\* cached model and the cached forecast, and the forecast stage of that rerun
\* reports "Train first.".
C1_ItemChangeClearsCache ==
    [][(/\ sku' # sku
        /\ Has(session_state, "m")
        /\ Has(session_state, "forecast")
        /\ out'.skus # <<>>)
       => (/\ ~Has(session_state', "m")
           /\ ~Has(session_state', "forecast")
           /\ out'.stage5 = "Train first.")]_vars

\* C2: whenever a forecast is plotted under the title of the selected item, or
\* offered for download under its name, the model behind it was fitted on a
\* training prefix of the series of that item in the loaded table.
C2_ShownForecastIsOfCurrentItem ==
    (out.stage5 = "forecast" \/ out.stage6 = "download")
        => /\ Has(session_state, "m")
           /\ IsPrefix(session_state.m[1].history, out.sku_df)

C4_EmptySeriesStops ==
    /\ (out.skus # <<>> /\ out.sku_df = <<>>) => (out.split = <<>> /\ out.fit_input = <<>>)
    /\ out.fit_input # <<>> => Len(out.fit_input[1]) >= 1

\* C5: until a fit has succeeded no model and no forecast is cached, nothing is
\* plotted or offered for download, a forecast stage that runs says "Train
\* first." and an export stage that runs says "Export available after
\* forecasting.".
C5_NothingBeforeTrain ==
    ~trained =>
        /\ ~Has(session_state, "m")
        /\ ~Has(session_state, "forecast")
        /\ out.plot = <<>> /\ out.mape = <<>> /\ out.export = <<>>
        /\ out.stage5 \in {"not run", "Train first."}
        /\ out.stage6 \in {"not run", "Export available after forecasting."}

\* Both messages shown after a Train whose fit raised and a later rerun.
C5_Witness ==
    /\ ~trained
    /\ horizon_days # HorizonDefault
    /\ out.stage5 = "Train first."
    /\ out.stage6 = "Export available after forecasting."

\* C6: a rerun in which only the horizon changes keeps the cached model, train
\* set and eval set, calls no fit, and leaves a forecast of that same model for
\* the new horizon; a fit is called only in a rerun with Train pressed.
C6_HorizonOnly ==
    [][/\ out'.fit_input # <<>> => out'.train_clicked
       /\ (/\ horizon_days' # horizon_days
           /\ uploaded' = uploaded /\ sku' = sku /\ test_tail' = test_tail)
          => /\ session_state'.m = session_state.m
             /\ session_state'.train = session_state.train
             /\ session_state'.test = session_state.test
             /\ out'.fit_input = <<>>
             /\ Has(session_state, "m") =>
                    /\ Has(session_state', "forecast")
                    /\ Len(session_state'.forecast[1])
                         = Cardinality(Dates(session_state.m[1].history)) + horizon_days'
                    /\ \A i \in 1..Len(session_state'.forecast[1]) :
                         session_state'.forecast[1][i].yhat = session_state.m[1].level]_vars

\* A forecast for the shortest horizon from a model that the rerun did not fit.
C6_Witness ==
    /\ Has(session_state, "m")
    /\ ~out.train_clicked
    /\ horizon_days = HorizonMin
    /\ out.stage5 = "forecast"
    /\ Len(session_state.forecast[1])
         = Cardinality(Dates(session_state.m[1].history)) + HorizonMin

\* C7 as stated: the forecast has len(train) + horizon rows, one per date, with
\* no duplicate dates and no gaps, whatever dates the train set has.
C7_RowCountAsStated ==
    out.stage5 = "forecast" =>
        LET fc == session_state.forecast[1]
            train == session_state.train[1]
        IN  /\ Len(fc) = Len(train) + horizon_days
            /\ \A i \in 1..(Len(fc) - 1) : fc[i + 1].ds = fc[i].ds + 1

\* C7 (amended): the forecast has one row per distinct date of the train set, in
\* ascending order, followed by `horizon` consecutive days after the last train
\* date: (distinct train dates) + horizon rows and no duplicate dates.  That is
\* len(train) + horizon rows without gaps when the train dates are distinct and
\* consecutive.
C7_RowCount ==
    out.stage5 = "forecast" =>
        LET fc == session_state.forecast[1]
            train == session_state.train[1]
            k == Cardinality(Dates(train))
            last == CHOOSE d \in Dates(train) : \A e \in Dates(train) : e <= d
        IN  /\ Len(fc) = k + horizon_days
            /\ \A i \in 1..Len(fc) : \A j \in 1..Len(fc) : i < j => fc[i].ds < fc[j].ds
            /\ {fc[i].ds : i \in 1..k} = Dates(train)
            /\ \A i \in 1..horizon_days : fc[k + i].ds = last + i
            /\ (\A i \in 1..(Len(train) - 1) : train[i + 1].ds = train[i].ds + 1)
                  => /\ Len(fc) = Len(train) + horizon_days
                     /\ \A i \in 1..(Len(fc) - 1) : fc[i + 1].ds = fc[i].ds + 1

\* A forecast from a train set with a repeated date and a gap between dates.
C7_Witness ==
    /\ out.stage5 = "forecast"
    /\ Cardinality(Dates(session_state.train[1])) < Len(session_state.train[1])
    /\ \E i \in 1..(Len(session_state.train[1]) - 1) :
          session_state.train[1][i + 1].ds > session_state.train[1][i].ds + 1

\* The eval rows whose date has a forecast row, as (actual, predicted) pairs.
MatchedPairs(test, fc) ==
    LET hit == SelectSeq(test, LAMBDA t : \E j \in 1..Len(fc) : fc[j].ds = t.ds)
    IN  [i \in 1..Len(hit) |->
            [actual |-> hit[i].y,
             predicted |-> fc[CHOOSE j \in 1..Len(fc) : fc[j].ds = hit[i].ds].yhat]]

\* The denominator of a row: 1 for an actual of exactly 0, the actual otherwise.
Denominator(actual) == IF actual = 0 THEN 1 ELSE actual

RECURSIVE DenominatorProduct(_)
DenominatorProduct(pairs) ==
    IF pairs = <<>> THEN 1
    ELSE Denominator(Head(pairs).actual) * DenominatorProduct(Tail(pairs))

\* The sum of |actual - predicted| / d over the pairs, times `product`.
RECURSIVE ScaledErrorSum(_, _)
ScaledErrorSum(pairs, product) ==
    IF pairs = <<>> THEN 0
    ELSE Abs(Head(pairs).actual - Head(pairs).predicted)
            * (product \div Denominator(Head(pairs).actual))
         + ScaledErrorSum(Tail(pairs), product)

\* score = 100 * mean over the pairs of |actual - predicted| / d
IsHundredTimesMean(score, pairs) ==
    LET product == DenominatorProduct(pairs)
    IN  score.num * product * Len(pairs) = 100 * ScaledErrorSum(pairs, product) * score.den

\* C8: eval rows without a forecast row of the same date are left out of the
\* score without an error, the score is the mean over the matched rows, and the
\* row count reported with it is the number of matched rows.
C8_ReportedCountIsMatched ==
    out.mape # <<>> =>
        LET pairs == MatchedPairs(session_state.test[1], session_state.forecast[1])
        IN  /\ out.error = "none"
            /\ out.mape[1].days = Len(pairs)
            /\ IF pairs = <<>> THEN out.mape[1].mape = <<>>
               ELSE /\ out.mape[1].mape # <<>>
                    /\ IsHundredTimesMean(out.mape[1].mape[1], pairs)

\* C9: for a non-empty set of matched rows the score is 100 times the mean of
\* |actual - predicted| / d with d = 1 for an actual of 0 and d = actual
\* otherwise, and the info line shows it to two decimals; one matched row with
\* actual 0 and predicted 5 scores 500, and perfect predictions of non-zero
\* actuals score 0.
C9_Mape ==
    out.mape # <<>> =>
        LET pairs == MatchedPairs(session_state.test[1], session_state.forecast[1])
        IN  pairs # <<>> =>
              /\ out.mape[1].mape # <<>>
              /\ LET score == out.mape[1].mape[1]
                     text == out.mape[1].text[1]
                 IN  /\ IsHundredTimesMean(score, pairs)
                     /\ 2 * Abs(text * score.den - 100 * score.num) <= score.den
                     /\ pairs = <<[actual |-> 0, predicted |-> 5]>>
                           => (score = [num |-> 500, den |-> 1] /\ text = 50000)
                     /\ (\A i \in 1..Len(pairs) :
                            pairs[i].actual # 0 /\ pairs[i].actual = pairs[i].predicted)
                           => (score = [num |-> 0, den |-> 1] /\ text = 0)

\* A score over several matched rows, one of them with an actual of 0.
C9_Witness ==
    /\ out.mape # <<>>
    /\ LET pairs == MatchedPairs(session_state.test[1], session_state.forecast[1])
       IN  /\ Len(pairs) > 2
           /\ \E i \in 1..Len(pairs) : pairs[i].actual = 0 /\ pairs[i].predicted = 5
           /\ \E i \in 1..Len(pairs) : pairs[i].actual > 1

\* C10 as stated: with the hold-out slider at 0 no accuracy report is produced,
\* and a report is produced only when the eval set of the current split has rows.
C10_SkippedAsStated ==
    /\ test_tail = 0 => out.mape = <<>>
    /\ out.mape # <<>> => (out.split # <<>> /\ out.split[1].test # <<>>)

\* C10 (amended): the report is produced exactly when the forecast stage runs
\* with a cached eval set that has rows, the eval set of the split the cached
\* model was trained with; a train with the hold-out slider at 0 caches an empty
\* eval set, and its rerun and the reruns after it produce no report.
C10_Skipped ==
    /\ out.mape # <<>> <=> (out.stage5 = "forecast" /\ Len(session_state.test[1]) > 0)
    /\ (out.train_clicked /\ out.error = "none" /\ test_tail = 0)
          => (session_state.test = <<<<>>>> /\ out.mape = <<>>)
    /\ (out.train_clicked /\ out.error = "none")
          => session_state.test = <<out.split[1].test>>

\* A forecast shown without a report after a train with the slider at 0.
C10_Witness ==
    /\ out.train_clicked /\ out.error = "none"
    /\ test_tail = 0
    /\ out.stage5 = "forecast"
    /\ out.mape = <<>>

\* The rows of `table` of item s that have a date and a quantity.
UsableRows(table, s) ==
    {i \in 1..Len(table) :
        table[i].SKU = s /\ table[i].Date # NaT /\ table[i].Sales_Qty # NaN}

\* C11: for every table, the cleaned series of the chosen item holds exactly the
\* rows of that item that have a date and a quantity, each once, has no missing
\* date or quantity, is in non-decreasing date order and is labelled 0, 1, 2, ...
C11_CleanSeries ==
    LET S == stage2.sku_df
        table == stage2.table
        usable == UsableRows(table, stage2.sku)
    IN  /\ Len(S) = Cardinality(usable)
        /\ \A i \in 1..Len(S) :
              /\ S[i].ds # NaT /\ S[i].y # NaN
              /\ S[i].idx = i - 1
              /\ Cardinality({j \in 1..Len(S) : S[j].ds = S[i].ds /\ S[j].y = S[i].y})
                   = Cardinality({k \in usable : table[k].Date = S[i].ds
                                                  /\ table[k].Sales_Qty = S[i].y})
        /\ \A i \in 1..(Len(S) - 1) : S[i].ds <= S[i + 1].ds

\* A table with the item's rows out of date order, a row of it without a
\* quantity and a row of another item in between.
C11_Witness ==
    /\ Len(stage2.table) = 4
    /\ stage2.sku = "A"
    /\ stage2.table[1] = Row("A", 2, 1)
    /\ stage2.table[2].SKU = "B"
    /\ stage2.table[3] = Row("A", 1, NaN)
    /\ stage2.table[4] = Row("A", 1, 1)
    /\ Len(stage2.sku_df) = 2
    /\ stage2.sku_df[1].ds = 1

\* C12: the hold-out length handed to the split stage lies in
\* [0, min(60, floor(len(series) / 3))].
C12_HoldOutInRange ==
    out.split # <<>> =>
        /\ 0 <= test_tail
        /\ test_tail <= Min(60, Len(out.sku_df) \div 3)

\* The cleaned series of every item of the two tables.
AllSeries ==
    {Clean(SampleDf, Skus(SampleDf)[i]) : i \in 1..Len(Skus(SampleDf))}
        \cup {Clean(UploadDf, Skus(UploadDf)[i]) : i \in 1..Len(Skus(UploadDf))}

\* The cached model, train set and eval set are all absent, or all present with
\* the train set the history of the model and the eval set the rest of a series.
CacheConsistent(ss) ==
    \/ ~Has(ss, "m") /\ ~Has(ss, "train") /\ ~Has(ss, "test")
    \/ /\ Has(ss, "m") /\ Has(ss, "train") /\ Has(ss, "test")
       /\ ss.m[1].history = ss.train[1]
       /\ ss.train[1] \o ss.test[1] \in AllSeries
       /\ Len(ss.train[1]) >= 1

\* C13: the cached model, train set and eval set are always all absent or all
\* present and consistent; a Train whose fit raises leaves the three as they
\* were, and a Train whose fit returns replaces the three by the model fitted in
\* that rerun and the two parts of that rerun's split.
C13_CacheConsistent ==
    [][/\ CacheConsistent(session_state')
       /\ out'.error = "fit raised" =>
             /\ session_state'.m = session_state.m
             /\ session_state'.train = session_state.train
             /\ session_state'.test = session_state.test
       /\ (out'.train_clicked /\ out'.error = "none") =>
             /\ Has(session_state', "m")
             /\ session_state'.m[1].history = out'.fit_input[1]
             /\ session_state'.train = <<out'.split[1].train>>
             /\ session_state'.test = <<out'.split[1].test>>
       /\ ~out'.train_clicked =>
             /\ session_state'.m = session_state.m
             /\ session_state'.train = session_state.train
             /\ session_state'.test = session_state.test]_vars

\* After a Train whose fit raised on another split than the cached one.
C13_Witness ==
    /\ out.error = "fit raised"
    /\ Has(session_state, "m")
    /\ session_state.test[1] # <<>>
    /\ out.fit_input[1] # session_state.train[1]

\* C14: a forecast is cached only with a model; when the export stage offers the
\* download, the forecast stage ran in the same rerun, the cached forecast is
\* the one of the cached model for the current horizon, and the exported table
\* has the columns Date, Forecast, Lower, Upper and one row per forecast row.
C14_ExportIsCurrent ==
    /\ Has(session_state, "forecast") => Has(session_state, "m")
    /\ out.export # <<>> <=> out.stage6 = "download"
    /\ out.stage6 = "download" =>
          LET fc == session_state.forecast[1]
              m == session_state.m[1]
          IN  /\ out.stage5 = "forecast"
              /\ Len(fc) = Cardinality(Dates(m.history)) + horizon_days
              /\ \A i \in 1..Len(fc) : fc[i].yhat = m.level
              /\ \A i \in 1..horizon_days :
                    fc[Len(fc) - horizon_days + i].ds = fc[Len(fc) - horizon_days].ds + i
              /\ out.export[1].columns = {"Date", "Forecast", "Lower", "Upper"}
              /\ out.export[1].rows = Len(fc)
              /\ out.export[1].rows = out.plot[1].points

\* A download offered in a rerun that fitted nothing, at another horizon than
\* the default.
C14_Witness ==
    /\ out.stage6 = "download"
    /\ ~out.train_clicked
    /\ horizon_days = HorizonMin + 1
    /\ out.export[1].rows = Cardinality(Dates(session_state.m[1].history)) + HorizonMin + 1

====
